---------------------------- MODULE Spec2Model ----------------------------
(***************************************************************************)
(* A model of the cash-test crate: the BDHKE point derivations of          *)
(* src/crypto.rs, the error taxonomy of src/error.rs and the wire models   *)
(* and token codec of src/models.rs.                                       *)
(*                                                                         *)
(* Text and byte strings are sequences of byte values (a text is the       *)
(* sequence of its ASCII/UTF-8 bytes).  Option<T> is a sequence of length  *)
(* 0 (None) or 1 (Some).  Result<T, Error> is a record [ok, val, err]      *)
(* whose val is Some(value) exactly when ok.                               *)
(*                                                                         *)
(* The external crates are modelled by what they compute.  The curve is    *)
(* y^2 = x^3 + 7 as in secp256k1, over the field of 13 elements instead of *)
(* the 256-bit field: like secp256k1 its group has prime order (7), a      *)
(* coordinate takes one byte instead of 32, and the digest is one byte     *)
(* holding a 4-bit value instead of 32 bytes.                              *)
(***************************************************************************)
EXTENDS Integers, Sequences, FiniteSets, TLC

VARIABLES
    decompact,  \* whether the k256 release linked decodes the compact form
    bm,         \* Option<crypto::BlindedMessage>: the wrapper the caller holds
    last        \* the last call: its name, its arguments and what it returned

vars == <<decompact, bm, last>>

---------------------------------------------------------------------------
(* Text *)

Ord ==
    " " :> 32 @@ "!" :> 33 @@ "\"" :> 34 @@ "#" :> 35 @@ "$" :> 36 @@ "%" :> 37 @@
    "&" :> 38 @@ "'" :> 39 @@ "(" :> 40 @@ ")" :> 41 @@ "*" :> 42 @@ "+" :> 43 @@
    "," :> 44 @@ "-" :> 45 @@ "." :> 46 @@ "/" :> 47 @@ "0" :> 48 @@ "1" :> 49 @@
    "2" :> 50 @@ "3" :> 51 @@ "4" :> 52 @@ "5" :> 53 @@ "6" :> 54 @@ "7" :> 55 @@
    "8" :> 56 @@ "9" :> 57 @@ ":" :> 58 @@ ";" :> 59 @@ "<" :> 60 @@ "=" :> 61 @@
    ">" :> 62 @@ "?" :> 63 @@ "@" :> 64 @@ "A" :> 65 @@ "B" :> 66 @@ "C" :> 67 @@
    "D" :> 68 @@ "E" :> 69 @@ "F" :> 70 @@ "G" :> 71 @@ "H" :> 72 @@ "I" :> 73 @@
    "J" :> 74 @@ "K" :> 75 @@ "L" :> 76 @@ "M" :> 77 @@ "N" :> 78 @@ "O" :> 79 @@
    "P" :> 80 @@ "Q" :> 81 @@ "R" :> 82 @@ "S" :> 83 @@ "T" :> 84 @@ "U" :> 85 @@
    "V" :> 86 @@ "W" :> 87 @@ "X" :> 88 @@ "Y" :> 89 @@ "Z" :> 90 @@ "[" :> 91 @@
    "\\" :> 92 @@ "]" :> 93 @@ "^" :> 94 @@ "_" :> 95 @@ "a" :> 97 @@
    "b" :> 98 @@ "c" :> 99 @@ "d" :> 100 @@ "e" :> 101 @@ "f" :> 102 @@ "g" :> 103 @@
    "h" :> 104 @@ "i" :> 105 @@ "j" :> 106 @@ "k" :> 107 @@ "l" :> 108 @@ "m" :> 109 @@
    "n" :> 110 @@ "o" :> 111 @@ "p" :> 112 @@ "q" :> 113 @@ "r" :> 114 @@ "s" :> 115 @@
    "t" :> 116 @@ "u" :> 117 @@ "v" :> 118 @@ "w" :> 119 @@ "x" :> 120 @@ "y" :> 121 @@
    "z" :> 122 @@ "{" :> 123 @@ "|" :> 124 @@ "}" :> 125 @@ "~" :> 126

\* The bytes of a text given as the tuple of its characters.
Str(chars) == [i \in 1..Len(chars) |-> Ord[chars[i]]]

None == <<>>
Some(v) == <<v>>

Ok(v) == [ok |-> TRUE, val |-> <<v>>, err |-> [kind |-> "none", cause |-> <<>>]]
Err(kind, cause) == [ok |-> FALSE, val |-> <<>>, err |-> [kind |-> kind, cause |-> cause]]

\* error.rs: the three error kinds, each with the cause it wraps.
HexConversion(e) == Err("HexConversion", <<e>>)
EccArithmetic == Err("EccArithmetic", <<"elliptic_curve::Error">>)
TokenV3(cause) == Err("TokenV3", cause)
map_tokenv3(e) == TokenV3(<<e>>)

---------------------------------------------------------------------------
(* hex *)

hex_val(c) ==
    IF c >= 48 /\ c <= 57 THEN c - 48
    ELSE IF c >= 97 /\ c <= 102 THEN c - 87
    ELSE IF c >= 65 /\ c <= 70 THEN c - 55
    ELSE -1

\* hex::decode: the length is checked first, then every character.
hex_decode(text) ==
    IF Len(text) % 2 = 1 THEN HexConversion("OddLength")
    ELSE IF \E i \in 1..Len(text) : hex_val(text[i]) = -1
    THEN HexConversion("InvalidHexCharacter")
    ELSE Ok([i \in 1..(Len(text) \div 2) |->
                16 * hex_val(text[2 * i - 1]) + hex_val(text[2 * i])])

\* As hex_digit, but with the letters in upper case.
hex_digit_upper(n) == IF n < 10 THEN 48 + n ELSE 55 + n

hex_digit(n) == IF n < 10 THEN 48 + n ELSE 87 + n

\* hex::encode: two lowercase digits per byte.
hex_encode(bytes) ==
    [i \in 1..(2 * Len(bytes)) |->
        IF i % 2 = 1 THEN hex_digit(bytes[(i + 1) \div 2] \div 16)
        ELSE hex_digit(bytes[i \div 2] % 16)]

---------------------------------------------------------------------------
(* k256: the curve group *)

P == 13             \* the field modulus
CurveB == 7         \* y^2 = x^3 + CurveB
FieldBytes == 1     \* bytes of one encoded coordinate

Identity == <<>>    \* the point at infinity; an affine point is <<x, y>>

OnCurve(x, y) == (y * y) % P = (x * x * x + CurveB) % P

CurvePoints == {pt \in (0..(P - 1)) \X (0..(P - 1)) : OnCurve(pt[1], pt[2])}

\* The group order; a scalar is an integer modulo it.
CurveOrder == Cardinality(CurvePoints) + 1

FieldInv(a) == CHOOSE b \in 1..(P - 1) : (a * b) % P = 1

PointAdd(a, b) ==
    IF a = Identity THEN b
    ELSE IF b = Identity THEN a
    ELSE IF a[1] = b[1] /\ (a[2] + b[2]) % P = 0 THEN Identity
    ELSE LET l == IF a = b
                  THEN (3 * a[1] * a[1] * FieldInv((2 * a[2]) % P)) % P
                  ELSE ((b[2] - a[2]) * FieldInv((b[1] - a[1]) % P)) % P
             x == (l * l - a[1] - b[1]) % P
             y == (l * (a[1] - x) - a[2]) % P
         IN  <<x, y>>

RECURSIVE ScalarMul(_, _)
ScalarMul(k, pt) ==
    IF k = 0 THEN Identity
    ELSE IF k % 2 = 1 THEN PointAdd(pt, ScalarMul(k - 1, pt))
    ELSE LET h == ScalarMul(k \div 2, pt) IN PointAdd(h, h)

G == <<7, 5>>       \* the generator

\* k256::SecretKey: a nonzero scalar below the group order.
SecretKeys == 1..(CurveOrder - 1)

\* SecretKey::public_key
public_key(sk) == ScalarMul(sk, G)

\* PublicKey::try_from(ProjectivePoint): the identity is no public key.
PublicKey_try_from(point) ==
    IF point = Identity THEN EccArithmetic ELSE Ok(point)

\* The coordinate a big-endian byte string encodes.
RECURSIVE be_value(_)
be_value(bytes) ==
    IF bytes = <<>> THEN 0
    ELSE 256 * be_value(SubSeq(bytes, 1, Len(bytes) - 1)) + bytes[Len(bytes)]

\* The point with abscissa x whose ordinate has the parity the tag asks for
\* (tag 2: even, tag 3: odd), when there is one.
decompress(x, tag) ==
    LET ys == {y \in 0..(P - 1) : OnCurve(x, y) /\ y % 2 = tag - 2}
    IN  IF x >= P \/ ys = {} THEN None ELSE Some(<<x, CHOOSE y \in ys : TRUE>>)

\* As from_sec1_bytes, but the encoding of the identity is accepted.
from_sec1_bytes_identity(bytes) ==
    IF bytes = <<0>> THEN Ok(Identity)
    ELSE IF bytes = <<>> \/ bytes[1] \notin {2, 3} \/ Len(bytes) # 1 + FieldBytes
    THEN EccArithmetic
    ELSE LET pt == decompress(bytes[2], bytes[1])
         IN  IF pt = None THEN EccArithmetic ELSE Ok(pt[1])

\* PublicKey::from_sec1_bytes: the SEC1 tag selects the form (0 identity,
\* 2 and 3 compressed, 4 uncompressed, 5 compact); the length must be the
\* form's; the identity is refused, and the coordinates must be field
\* elements of a point of the curve.  The crate's manifest is not part of
\* the sources, and k256 releases differ on the compact form: it is either
\* refused or read as the point of that abscissa with even ordinate.
from_sec1_bytes(bytes) ==
    IF bytes = <<>> THEN EccArithmetic
    ELSE LET tag == bytes[1]
             n == Len(bytes) - 1
         IN  IF tag \in {2, 3}
             THEN IF n # FieldBytes THEN EccArithmetic
                  ELSE LET pt == decompress(be_value(SubSeq(bytes, 2, 1 + FieldBytes)), tag)
                       IN  IF pt = None THEN EccArithmetic ELSE Ok(pt[1])
             ELSE IF tag = 4
             THEN IF n # 2 * FieldBytes THEN EccArithmetic
                  ELSE LET x == be_value(SubSeq(bytes, 2, 1 + FieldBytes))
                           y == be_value(SubSeq(bytes, 2 + FieldBytes, 1 + 2 * FieldBytes))
                       IN  IF x < P /\ y < P /\ OnCurve(x, y)
                           THEN Ok(<<x, y>>) ELSE EccArithmetic
             ELSE IF tag = 5 /\ decompact
             THEN IF n # FieldBytes THEN EccArithmetic
                  ELSE LET pt == decompress(be_value(SubSeq(bytes, 2, 1 + FieldBytes)), 2)
                       IN  IF pt = None THEN EccArithmetic ELSE Ok(pt[1])
             ELSE EccArithmetic

\* PublicKey::to_sec1_bytes, compressed.
to_sec1_bytes(pt) == << 2 + (pt[2] % 2), pt[1] >>

---------------------------------------------------------------------------
(* sha2 *)

DigestMod == 16     \* the digest is a value below DigestMod, in one byte

RECURSIVE sha_fold(_, _)
sha_fold(h, bytes) ==
    IF bytes = <<>> THEN h
    ELSE sha_fold(((h + bytes[1]) * (h + bytes[1]) + h + 3) % DigestMod, Tail(bytes))

\* Sha256::digest: a fixed function from byte strings to digests.
Sha256(bytes) == <<sha_fold(8, bytes)>>

---------------------------------------------------------------------------
(* crypto.rs *)

\* Secret::from_hex
Secret_from_hex(data) == hex_decode(data)

\* The loop of Secret::hash_to_curve, entered with the digest s.
RECURSIVE hash_to_curve_loop(_)
hash_to_curve_loop(s) ==
    LET v == <<2>> \o s
        pk == from_sec1_bytes(v)
    IN  IF pk.ok THEN pk.val[1] ELSE hash_to_curve_loop(Sha256(s))

\* As hash_to_curve, but the secret itself is the first candidate.
hash_to_curve_raw_first(secret) == hash_to_curve_loop(secret)

\* Secret::hash_to_curve
hash_to_curve(secret) == hash_to_curve_loop(Sha256(secret))

\* As blinded_message, but the sum is wrapped without the conversion's check.
blinded_message_unchecked(secret, blinding_factor) ==
    Ok(PointAdd(hash_to_curve(secret), public_key(blinding_factor)))

\* Secret::blinded_message
blinded_message(secret, blinding_factor) ==
    LET secret_point == hash_to_curve(secret)
        blind_point == public_key(blinding_factor)
        new_point == PointAdd(secret_point, blind_point)
    IN  PublicKey_try_from(new_point)

\* As blinded_key, but the scalar is dropped.
blinded_key_no_scalar(pk, sk) == PublicKey_try_from(pk)

\* As blinded_key, but with the unblinding formula: the point less sk * G.
blinded_key_unblind(pk, sk) ==
    LET m == public_key(sk)
    IN  PublicKey_try_from(PointAdd(pk, <<m[1], (P - m[2]) % P>>))

\* BlindedMessage::blinded_key
blinded_key(pk, sk) ==
    LET new_point == ScalarMul(sk, pk)
    IN  PublicKey_try_from(new_point)

\* BlindedMessage::from_hex
BlindedMessage_from_hex(data) ==
    LET bytes == hex_decode(data)
    IN  IF ~bytes.ok THEN bytes ELSE from_sec1_bytes(bytes.val[1])

\* As BlindedKey::from_hex, but bytes that are no point give a default key.
BlindedKey_from_hex_default(data) ==
    LET bytes == hex_decode(data)
    IN  IF ~bytes.ok THEN bytes
        ELSE LET key == from_sec1_bytes(bytes.val[1])
             IN  IF key.ok THEN key ELSE Ok(G)

\* BlindedKey::from_hex
BlindedKey_from_hex(data) ==
    LET bytes == hex_decode(data)
    IN  IF ~bytes.ok THEN bytes ELSE from_sec1_bytes(bytes.val[1])

---------------------------------------------------------------------------
(* The calls a holder and a mint make, and their arguments *)

MaxSecretLen == 2

RECURSIVE SeqsUpTo(_, _)
SeqsUpTo(S, n) ==
    IF n = 0 THEN {<<>>}
    ELSE LET shorter == SeqsUpTo(S, n - 1)
         IN  shorter \cup {Append(s, e) : s \in {t \in shorter : Len(t) = n - 1}, e \in S}

SecretBytes == {0, 7}
Secrets == SeqsUpTo(SecretBytes, MaxSecretLen)

\* Byte strings offered to from_hex: every SEC1 form, with lengths and
\* coordinates that are and are not those of a point.
SecBytes ==
    { <<>>, <<0>>, <<2, 8>>, <<3, 8>>, <<2, 11>>, <<2, 5>>, <<2, 13>>,
      <<2, 8, 8>>, <<4, 8, 8>>, <<4, 8, 6>>, <<4, 8>>, <<5, 8>>, <<5, 5>>,
      <<5, 8, 8>>, <<6, 8, 8>> }

\* Their hex texts, and texts that are not hex.
HexTexts ==
    {hex_encode(b) : b \in SecBytes}
      \cup { Str(<<"0", "2", "0", "B">>), Str(<<"0", "2", "8">>),
             Str(<<"0", "2", "0", "g">>), Str(<<"z", "2", "8">>) }

Init ==
    /\ decompact \in BOOLEAN
    /\ bm = None
    /\ last = [op |-> "init"]

CallSecretFromHex ==
    \E data \in HexTexts :
        /\ last' = [op |-> "Secret::from_hex", data |-> data,
                    res |-> Secret_from_hex(data)]
        /\ UNCHANGED <<decompact, bm>>

CallHashToCurve ==
    \E secret \in Secrets :
        /\ last' = [op |-> "hash_to_curve", secret |-> secret,
                    res |-> hash_to_curve(secret)]
        /\ UNCHANGED <<decompact, bm>>

CallBlindedMessage ==
    \E secret \in Secrets, blinding_factor \in SecretKeys :
        LET res == blinded_message(secret, blinding_factor)
        IN  /\ last' = [op |-> "blinded_message", secret |-> secret,
                        blinding_factor |-> blinding_factor, res |-> res]
            /\ bm' = IF res.ok THEN Some(res.val[1]) ELSE bm
            /\ UNCHANGED decompact

\* The mint signs the blinded message the caller holds.
CallBlindedKey ==
    /\ bm # None
    /\ \E sk \in SecretKeys :
        /\ last' = [op |-> "blinded_key", pk |-> bm[1], sk |-> sk,
                    res |-> blinded_key(bm[1], sk)]
        /\ UNCHANGED <<decompact, bm>>

CallBlindedMessageFromHex ==
    \E data \in HexTexts :
        LET res == BlindedMessage_from_hex(data)
        IN  /\ last' = [op |-> "BlindedMessage::from_hex", data |-> data, res |-> res]
            /\ bm' = IF res.ok THEN Some(res.val[1]) ELSE bm
            /\ UNCHANGED decompact

CallBlindedKeyFromHex ==
    \E data \in HexTexts :
        /\ last' = [op |-> "BlindedKey::from_hex", data |-> data,
                    res |-> BlindedKey_from_hex(data)]
        /\ UNCHANGED <<decompact, bm>>

NextCrypto ==
    \/ CallSecretFromHex
    \/ CallHashToCurve
    \/ CallBlindedMessage
    \/ CallBlindedKey
    \/ CallBlindedMessageFromHex
    \/ CallBlindedKeyFromHex

SpecCrypto == Init /\ [][NextCrypto]_vars

---------------------------------------------------------------------------
(* Properties of crypto.rs *)

\* The digest applied k times.
RECURSIVE ShaIter(_, _)
ShaIter(k, bytes) == IF k = 0 THEN bytes ELSE Sha256(ShaIter(k - 1, bytes))

IsCandidate(digest) == from_sec1_bytes(<<2>> \o digest).ok

\* C2: hash_to_curve returns the point whose compressed encoding is 0x02
\* followed by the k-th iterated digest of the secret, for the smallest
\* k >= 1 that gives a point: the first candidate is the digest of the secret,
\* never the secret, and no earlier candidate is skipped.
C2_HashToCurveLeastDigest ==
    last.op = "hash_to_curve" =>
        \E k \in 1..DigestMod :
            /\ to_sec1_bytes(last.res) = <<2>> \o ShaIter(k, last.secret)
            /\ last.res \in CurvePoints
            /\ \A j \in 1..(k - 1) : ~IsCandidate(ShaIter(j, last.secret))

\* A call whose secret is itself the abscissa of a point and whose first
\* digest is not: the loop has retried.
C2_Witness ==
    /\ last.op = "hash_to_curve"
    /\ IsCandidate(last.secret)
    /\ ~IsCandidate(Sha256(last.secret))

\* The scalar k with k * G = pt, for a point pt of the group.
DiscreteLog(pt) == CHOOSE k \in 0..(CurveOrder - 1) : ScalarMul(k, G) = pt

\* C3: blinded_message(r) on secret s returns Ok of hash_to_curve(s) + r * G
\* when that sum is not the identity, and EccArithmetic, with no value, when
\* it is. The sum is stated through scalars: hash_to_curve(s) = h * G, and
\* the sum is (h + r) * G, the identity exactly when h + r is the group order.
C3_BlindedMessageSum ==
    last.op = "blinded_message" =>
        LET h == DiscreteLog(hash_to_curve(last.secret))
            e == (h + last.blinding_factor) % CurveOrder
        IN  IF e = 0
            THEN /\ ~last.res.ok
                 /\ last.res.val = None
                 /\ last.res.err.kind = "EccArithmetic"
            ELSE /\ last.res = Ok(ScalarMul(e, G))
                 /\ last.res.val[1] \in CurvePoints

\* A blinding factor that cancels the secret's point: the call has failed.
C3_Witness ==
    /\ last.op = "blinded_message"
    /\ ~last.res.ok

\* pt added to itself k times.
RECURSIVE RepeatAdd(_, _)
RepeatAdd(k, pt) == IF k = 0 THEN Identity ELSE PointAdd(RepeatAdd(k - 1, pt), pt)

\* C4: blinded_key(k) on a BlindedMessage wrapping B returns Ok of k * B, so
\* with k = 1 the same point, and EccArithmetic if the product is the identity.
C4_BlindedKeyProduct ==
    last.op = "blinded_key" =>
        LET product == RepeatAdd(last.sk, last.pk)
        IN  /\ product # Identity => last.res = Ok(product)
            /\ product = Identity =>
                 ~last.res.ok /\ last.res.err.kind = "EccArithmetic"
            /\ last.sk = 1 => last.res = Ok(last.pk)

\* The mint has signed a blinded message with the scalar 1, and the key is
\* the point of the message.
C4_Witness ==
    /\ last.op = "blinded_key"
    /\ last.sk = 1
    /\ last.res = Ok(bm[1])

HexDigits == { Ord[c] : c \in {"0", "1", "2", "3", "4", "5", "6", "7", "8", "9",
                               "a", "b", "c", "d", "e", "f",
                               "A", "B", "C", "D", "E", "F"} }

WellFormedHex(text) ==
    /\ Len(text) % 2 = 0
    /\ \A i \in 1..Len(text) : text[i] \in HexDigits

\* The text with its letters A-F in lower case.
LowerCase(text) ==
    [i \in 1..Len(text) |-> IF text[i] >= 65 /\ text[i] <= 70 THEN text[i] + 32 ELSE text[i]]

\* The byte string the hex text encodes is that of a point, compressed.
CompressedPoints(text) ==
    {pt \in CurvePoints : hex_encode(<<2 + (pt[2] % 2), pt[1]>>) = LowerCase(text)}

\* The byte string the hex text encodes is that of a point, uncompressed.
UncompressedPoints(text) ==
    {pt \in CurvePoints : hex_encode(<<4, pt[1], pt[2]>>) = LowerCase(text)}

\* The byte string the hex text encodes is the compact form of an abscissa,
\* and the point is the one of even ordinate there.
CompactPoints(text) ==
    {pt \in CurvePoints : pt[2] % 2 = 0 /\ hex_encode(<<5, pt[1]>>) = LowerCase(text)}

IsPointFromHex(op) == op \in {"BlindedMessage::from_hex", "BlindedKey::from_hex"}

SecretFromHexRight ==
    last.op = "Secret::from_hex" =>
        IF WellFormedHex(last.data)
        THEN last.res.ok /\ hex_encode(last.res.val[1]) = LowerCase(last.data)
        ELSE ~last.res.ok /\ last.res.err.kind = "HexConversion" /\ last.res.val = None

\* C7 as claimed: text that is not hex fails with HexConversion; hex whose
\* bytes are not a valid compressed point fails with EccArithmetic; Ok is
\* returned exactly when both steps pass, and wraps the point encoded.
C7_FromHexCompressedOnly ==
    /\ SecretFromHexRight
    /\ IsPointFromHex(last.op) =>
        IF ~WellFormedHex(last.data)
        THEN ~last.res.ok /\ last.res.err.kind = "HexConversion" /\ last.res.val = None
        ELSE IF CompressedPoints(last.data) = {}
        THEN ~last.res.ok /\ last.res.err.kind = "EccArithmetic" /\ last.res.val = None
        ELSE last.res.ok /\ last.res.val[1] \in CompressedPoints(last.data)

\* C7, amended: text that is not hex fails with HexConversion; hex whose
\* bytes are not a SEC1 encoding of a point of the curve that the k256
\* release linked reads (compressed, uncompressed and, in the releases that
\* read it, compact) fails with EccArithmetic; Ok is returned exactly when
\* both steps pass, and wraps the point encoded, never a default value.
C7_FromHexSec1 ==
    /\ SecretFromHexRight
    /\ IsPointFromHex(last.op) =>
        LET compact == IF decompact THEN CompactPoints(last.data) ELSE {}
            points == CompressedPoints(last.data) \cup UncompressedPoints(last.data)
                        \cup compact
        IN  IF ~WellFormedHex(last.data)
            THEN ~last.res.ok /\ last.res.err.kind = "HexConversion" /\ last.res.val = None
            ELSE IF points = {}
            THEN ~last.res.ok /\ last.res.err.kind = "EccArithmetic" /\ last.res.val = None
            ELSE last.res.ok /\ last.res.val[1] \in points

\* Hex of bytes that are no point has been refused by BlindedKey::from_hex.
C7_Witness ==
    /\ last.op = "BlindedKey::from_hex"
    /\ WellFormedHex(last.data)
    /\ last.res.err.kind = "EccArithmetic"

MakesWrapper(op) ==
    op \in {"blinded_message", "blinded_key",
            "BlindedMessage::from_hex", "BlindedKey::from_hex"}

WrappersValid ==
    /\ bm # None => bm[1] \in CurvePoints
    /\ MakesWrapper(last.op) =>
         IF last.res.ok THEN last.res.val[1] \in CurvePoints ELSE last.res.val = None

FailureMakesNothing ==
    (MakesWrapper(last'.op) /\ ~last'.res.ok) => (bm' = bm /\ last'.res.val = None)

\* C9: after any sequence of from_hex, blinded_message and blinded_key calls,
\* every BlindedMessage and BlindedKey that exists wraps a point of the curve
\* other than the identity, and a failed call creates no wrapper: it returns
\* none and the wrapper held stays as it was.
C9_WrappersWrapPoints == [](WrappersValid) /\ [][FailureMakesNothing]_vars

\* A call has failed while a BlindedMessage was held.
C9_Witness ==
    /\ bm # None
    /\ MakesWrapper(last.op)
    /\ ~last.res.ok

\* C10: blinded_key never fails: for the BlindedMessage held, however it was
\* made, and every SecretKey, the product is not the identity.
C10_BlindedKeyNeverFails ==
    /\ last.op = "blinded_key" => last.res.ok
    /\ bm # None => \A sk \in SecretKeys : blinded_key(bm[1], sk).ok

\* The mint has signed a blinded message with the largest scalar.
C10_Witness ==
    /\ last.op = "blinded_key"
    /\ last.sk = CurveOrder - 1
    /\ last.res.ok

---------------------------------------------------------------------------
(* base64: the URL_SAFE engine (alphabet A-Z a-z 0-9 - _, padded) *)

b64_char(n) ==
    IF n < 26 THEN 65 + n
    ELSE IF n < 52 THEN 97 + (n - 26)
    ELSE IF n < 62 THEN 48 + (n - 52)
    ELSE IF n = 62 THEN 45 ELSE 95

b64_val(c) ==
    IF c >= 65 /\ c <= 90 THEN c - 65
    ELSE IF c >= 97 /\ c <= 122 THEN c - 97 + 26
    ELSE IF c >= 48 /\ c <= 57 THEN c - 48 + 52
    ELSE IF c = 45 THEN 62
    ELSE IF c = 95 THEN 63
    ELSE -1

\* Engine::encode: three bytes to four characters, the last group padded.
b64_encode(bytes) ==
    LET n == Len(bytes)
        byte(i) == IF i <= n THEN bytes[i] ELSE 0
        char(k) ==
            LET i == 3 * ((k - 1) \div 4) + 1
                r == (k - 1) % 4
            IN  IF r = 0 THEN b64_char(byte(i) \div 4)
                ELSE IF r = 1 THEN b64_char((byte(i) % 4) * 16 + byte(i + 1) \div 16)
                ELSE IF r = 2
                THEN IF i + 1 > n THEN 61
                     ELSE b64_char((byte(i + 1) % 16) * 4 + byte(i + 2) \div 64)
                ELSE IF i + 2 > n THEN 61 ELSE b64_char(byte(i + 2) % 64)
    IN  [k \in 1..(4 * ((n + 2) \div 3)) |-> char(k)]

\* The bytes of a text of whole groups of four that ends in pad padding
\* characters.
b64_groups(text, pad) ==
    LET val(j) == b64_val(text[j])
        byte(k) ==
            LET j == 4 * ((k - 1) \div 3) + 1
                r == (k - 1) % 3
            IN  IF r = 0 THEN val(j) * 4 + val(j + 1) \div 16
                ELSE IF r = 1 THEN (val(j + 1) % 16) * 16 + val(j + 2) \div 4
                ELSE (val(j + 2) % 4) * 64 + val(j + 3)
    IN  [k \in 1..(3 * (Len(text) \div 4) - pad) |-> byte(k)]

\* Engine::decode: whole groups of four, padding only at the end of the
\* last group and canonical, every other character of the alphabet, and no
\* bits set beyond the last byte.
b64_decode(text) ==
    LET n == Len(text)
        pad == IF n >= 2 /\ text[n] = 61 /\ text[n - 1] = 61 THEN 2
               ELSE IF n >= 1 /\ text[n] = 61 THEN 1 ELSE 0
    IN  IF \E i \in 1..(n - pad) : b64_val(text[i]) = -1 THEN Err("base64", <<"InvalidByte">>)
        ELSE IF n % 4 # 0 THEN Err("base64", <<"InvalidPadding">>)
        ELSE IF pad = 2 /\ b64_val(text[n - 2]) % 16 # 0 THEN Err("base64", <<"InvalidLastSymbol">>)
        ELSE IF pad = 1 /\ b64_val(text[n - 1]) % 4 # 0 THEN Err("base64", <<"InvalidLastSymbol">>)
        ELSE Ok(b64_groups(text, pad))

---------------------------------------------------------------------------
(* std::str::from_utf8 *)

IsCont(bytes, i) == i <= Len(bytes) /\ bytes[i] >= 128 /\ bytes[i] <= 191

\* The length of the sequence a lead byte announces, 0 for a byte that
\* cannot start one (a continuation byte, 0xC0, 0xC1, 0xF5 and above).
utf8_width(b) ==
    IF b < 128 THEN 1
    ELSE IF b >= 194 /\ b <= 223 THEN 2
    ELSE IF b >= 224 /\ b <= 239 THEN 3
    ELSE IF b >= 240 /\ b <= 244 THEN 4
    ELSE 0

\* Whether a well-formed sequence starts at position i: the lead byte, its
\* continuation bytes, no overlong form, no surrogate, nothing above U+10FFFF.
utf8_char_at(bytes, i) ==
    LET b == bytes[i]
        w == utf8_width(b)
    IN  /\ w > 0
        /\ \A k \in 1..(w - 1) : IsCont(bytes, i + k)
        /\ (b = 224 => bytes[i + 1] >= 160)
        /\ (b = 237 => bytes[i + 1] <= 159)
        /\ (b = 240 => bytes[i + 1] >= 144)
        /\ (b = 244 => bytes[i + 1] <= 143)

\* Whether the bytes are well-formed UTF-8: every byte that is not a
\* continuation byte starts a well-formed sequence, and every continuation
\* byte belongs to the sequence of the nearest lead byte before it.
utf8_valid(bytes) ==
    \A i \in 1..Len(bytes) :
        IF IsCont(bytes, i)
        THEN \E j \in 1..3 :
                /\ i - j >= 1
                /\ utf8_width(bytes[i - j]) > j
                /\ \A k \in 1..(j - 1) : IsCont(bytes, i - k)
        ELSE utf8_char_at(bytes, i)

from_utf8(bytes) == IF utf8_valid(bytes) THEN Ok(bytes) ELSE Err("utf8", <<"Utf8Error">>)

\* char::encode_utf8
utf8_encode(cp) ==
    IF cp < 128 THEN <<cp>>
    ELSE IF cp < 2048 THEN <<192 + cp \div 64, 128 + (cp % 64)>>
    ELSE IF cp < 65536
    THEN <<224 + cp \div 4096, 128 + ((cp \div 64) % 64), 128 + (cp % 64)>>
    ELSE <<240 + cp \div 262144, 128 + ((cp \div 4096) % 64),
           128 + ((cp \div 64) % 64), 128 + (cp % 64)>>

---------------------------------------------------------------------------
(* url: Url::parse and Url::as_str, for absolute http and https URLs
   scheme://host[:port][/path] with a named host and a path of letters,
   digits, '-', '_' and '/'.  A Url is held as its serialization. *)

IsAlpha(c) == (c >= 65 /\ c <= 90) \/ (c >= 97 /\ c <= 122)
IsDigit(c) == c >= 48 /\ c <= 57
ToLower(c) == IF c >= 65 /\ c <= 90 THEN c + 32 ELSE c
LowerText(text) == [i \in 1..Len(text) |-> ToLower(text[i])]

\* The first position at or after i whose byte is in S (Len + 1 if none).
RECURSIVE find_first(_, _, _)
find_first(text, i, S) ==
    IF i > Len(text) \/ text[i] \in S THEN i ELSE find_first(text, i + 1, S)

RECURSIVE decimal_value(_)
decimal_value(digits) ==
    IF digits = <<>> THEN 0
    ELSE 10 * decimal_value(SubSeq(digits, 1, Len(digits) - 1)) + (digits[Len(digits)] - 48)

RECURSIVE decimal_text(_)
decimal_text(n) ==
    IF n < 10 THEN <<48 + n>> ELSE Append(decimal_text(n \div 10), 48 + (n % 10))

DefaultPort(scheme) == IF scheme = Str(<<"h", "t", "t", "p", "s">>) THEN 443 ELSE 80

\* Url::parse: the scheme and the host are lower-cased, the scheme's default
\* port is dropped, and an empty path becomes "/".
Url_parse(text) ==
    LET colon == find_first(text, 1, {58})
        scheme == LowerText(SubSeq(text, 1, colon - 1))
        rest == colon + 3
        hostEnd == find_first(text, rest, {58, 47})
        host == LowerText(SubSeq(text, rest, hostEnd - 1))
        hasPort == hostEnd <= Len(text) /\ text[hostEnd] = 58
        pathAt == IF hasPort THEN find_first(text, hostEnd + 1, {47}) ELSE hostEnd
        port == SubSeq(text, hostEnd + 1, pathAt - 1)
        path == SubSeq(text, pathAt, Len(text))
    IN  IF \/ scheme \notin {Str(<<"h", "t", "t", "p">>), Str(<<"h", "t", "t", "p", "s">>)}
           \/ colon + 2 > Len(text)
           \/ text[colon + 1] # 47 \/ text[colon + 2] # 47
           \/ host = <<>>
           \/ \E i \in 1..Len(host) : ~(IsAlpha(host[i]) \/ IsDigit(host[i]) \/ host[i] \in {45, 46})
           \/ \E i \in 1..Len(port) : ~IsDigit(port[i])
           \/ Len(port) > 5
           \/ (port # <<>> /\ decimal_value(port) > 65535)
           \/ \E i \in 1..Len(path) : ~(IsAlpha(path[i]) \/ IsDigit(path[i]) \/ path[i] \in {45, 47, 95})
        THEN Err("url", <<"ParseError">>)
        ELSE Ok(scheme \o Str(<<":", "/", "/">>) \o host
                \o (IF port = <<>> \/ decimal_value(port) = DefaultPort(scheme)
                    THEN <<>> ELSE <<58>> \o decimal_text(decimal_value(port)))
                \o (IF path = <<>> THEN <<47>> ELSE path))

\* Url::as_str
Url_as_str(url) == url
---------------------------------------------------------------------------
(* serde_json::to_string *)

\* The escape of one byte of a string: the short escapes, \u00XX for the
\* other control characters, and every other byte as it is.
json_escape(c) ==
    IF c = 34 THEN <<92, 34>>
    ELSE IF c = 92 THEN <<92, 92>>
    ELSE IF c = 8 THEN <<92, 98>>
    ELSE IF c = 12 THEN <<92, 102>>
    ELSE IF c = 10 THEN <<92, 110>>
    ELSE IF c = 13 THEN <<92, 114>>
    ELSE IF c = 9 THEN <<92, 116>>
    ELSE IF c < 32 THEN <<92, 117, 48, 48, hex_digit(c \div 16), hex_digit(c % 16)>>
    ELSE <<c>>

RECURSIVE json_escaped(_)
json_escaped(s) == IF s = <<>> THEN <<>> ELSE json_escape(s[1]) \o json_escaped(Tail(s))

ser_str(s) == <<34>> \o json_escaped(s) \o <<34>>
ser_u64(n) == decimal_text(n)
ser_null == Str(<<"n", "u", "l", "l">>)
ser_option_str(o) == IF o = None THEN ser_null ELSE ser_str(o[1])
\* #[serde(with = "hex::serde")]
ser_hex(bytes) == ser_str(hex_encode(bytes))

\* A key and the colon after it.
ser_key(name) == ser_str(name) \o <<58>>

\* The elements, each after a comma.
RECURSIVE ser_more(_)
ser_more(texts) == IF texts = <<>> THEN <<>> ELSE <<44>> \o texts[1] \o ser_more(Tail(texts))

ser_seq(texts) ==
    IF texts = <<>> THEN <<91, 93>>
    ELSE <<91>> \o texts[1] \o ser_more(Tail(texts)) \o <<93>>

ser_map(texts) == <<123>> \o texts[1] \o ser_more(Tail(texts)) \o <<125>>

K_amount == Str(<<"a", "m", "o", "u", "n", "t">>)
K_id == Str(<<"i", "d">>)
K_secret == Str(<<"s", "e", "c", "r", "e", "t">>)
K_mint == Str(<<"m", "i", "n", "t">>)
K_proofs == Str(<<"p", "r", "o", "o", "f", "s">>)
K_token == Str(<<"t", "o", "k", "e", "n">>)
K_memo == Str(<<"m", "e", "m", "o">>)

\* models.rs: derive(Serialize) writes the fields in declaration order.
ser_BlindedMessage(v) ==
    ser_map(<< ser_key(K_amount) \o ser_u64(v.amount),
               ser_key(Str(<<"B", "_">>)) \o ser_hex(v.blinded_message) >>)

ser_BlindedSignature(v) ==
    ser_map(<< ser_key(K_id) \o ser_option_str(v.id),
               ser_key(K_amount) \o ser_u64(v.amount),
               ser_key(Str(<<"C", "_">>)) \o ser_hex(v.blinded_key) >>)

ser_Proof(v) ==
    ser_map(<< ser_key(K_id) \o ser_option_str(v.id),
               ser_key(K_amount) \o ser_u64(v.amount),
               ser_key(K_secret) \o ser_str(v.secret),
               ser_key(Str(<<"C">>)) \o ser_hex(v.unblinded_key) >>)

\* As ser_Proofs, but the last proof is written first.
ser_Proofs_reversed(v) == ser_seq([i \in 1..Len(v) |-> ser_Proof(v[Len(v) + 1 - i])])

\* Proofs(Vec<Proof>): a newtype is written as what it wraps.
ser_Proofs(v) == ser_seq([i \in 1..Len(v) |-> ser_Proof(v[i])])

ser_MintToken(v) ==
    ser_map(<< ser_key(K_mint) \o ser_str(Url_as_str(v.mint)),
               ser_key(K_proofs) \o ser_Proofs(v.proofs) >>)

ser_Token(v) ==
    ser_map(<< ser_key(K_token) \o ser_seq([i \in 1..Len(v.token) |-> ser_MintToken(v.token[i])]),
               ser_key(K_memo) \o ser_option_str(v.memo) >>)

---------------------------------------------------------------------------
(* serde_json::from_str: the text is read into a JSON value, and the value
   into the type asked for *)

Fail == [ok |-> FALSE]
Good(v, pos) == [ok |-> TRUE, val |-> v, pos |-> pos]

At(text, pos) == IF pos <= Len(text) THEN text[pos] ELSE -1

RECURSIVE skip_ws(_, _)
skip_ws(text, pos) ==
    IF At(text, pos) \in {32, 9, 10, 13} THEN skip_ws(text, pos + 1) ELSE pos

\* The value of the four hex digits at pos, or -1.
hex4(text, pos) ==
    IF pos + 3 > Len(text) \/ \E i \in 0..3 : hex_val(text[pos + i]) = -1 THEN -1
    ELSE 4096 * hex_val(text[pos]) + 256 * hex_val(text[pos + 1])
         + 16 * hex_val(text[pos + 2]) + hex_val(text[pos + 3])

\* The string whose opening quote is before pos. lone: an escape named a
\* surrogate without its pair, which a string that is kept refuses and a
\* string that is skipped does not.
RECURSIVE parse_str(_, _, _, _)
parse_str(text, pos, acc, lone) ==
    LET c == At(text, pos)
        e == At(text, pos + 1)
    IN  IF c = -1 \/ (c >= 0 /\ c < 32) THEN Fail
        ELSE IF c = 34 THEN Good([t |-> "str", s |-> acc, lone |-> lone], pos + 1)
        ELSE IF c # 92 THEN parse_str(text, pos + 1, Append(acc, c), lone)
        ELSE IF e \in {34, 92, 47} THEN parse_str(text, pos + 2, Append(acc, e), lone)
        ELSE IF e = 98 THEN parse_str(text, pos + 2, Append(acc, 8), lone)
        ELSE IF e = 102 THEN parse_str(text, pos + 2, Append(acc, 12), lone)
        ELSE IF e = 110 THEN parse_str(text, pos + 2, Append(acc, 10), lone)
        ELSE IF e = 114 THEN parse_str(text, pos + 2, Append(acc, 13), lone)
        ELSE IF e = 116 THEN parse_str(text, pos + 2, Append(acc, 9), lone)
        ELSE IF e # 117 THEN Fail
        ELSE LET n == hex4(text, pos + 2)
                 m == IF At(text, pos + 6) = 92 /\ At(text, pos + 7) = 117
                      THEN hex4(text, pos + 8) ELSE -1
             IN  IF n = -1 THEN Fail
                 ELSE IF n >= 55296 /\ n <= 56319
                 THEN IF m >= 56320 /\ m <= 57343
                      THEN parse_str(text, pos + 12,
                                     acc \o utf8_encode(65536 + (n - 55296) * 1024 + (m - 56320)),
                                     lone)
                      ELSE parse_str(text, pos + 6, acc, TRUE)
                 ELSE IF n >= 56320 /\ n <= 57343
                 THEN parse_str(text, pos + 6, acc, TRUE)
                 ELSE parse_str(text, pos + 6, acc \o utf8_encode(n), lone)

\* The first position at or after pos that holds no digit.
RECURSIVE skip_digits(_, _)
skip_digits(text, pos) ==
    IF IsDigit(At(text, pos)) THEN skip_digits(text, pos + 1) ELSE pos

\* The number at pos: -? (0 | [1-9][0-9]*) (. [0-9]+)? ([eE] [+-]? [0-9]+)?
parse_num(text, pos) ==
    LET neg == At(text, pos) = 45
        p1 == IF neg THEN pos + 1 ELSE pos
        p2 == IF At(text, p1) = 48 THEN p1 + 1 ELSE skip_digits(text, p1)
        hasFrac == At(text, p2) = 46
        p3 == IF hasFrac THEN skip_digits(text, p2 + 1) ELSE p2
        hasExp == At(text, p3) \in {101, 69}
        p4 == IF hasExp /\ At(text, p3 + 1) \in {43, 45} THEN p3 + 2 ELSE p3 + 1
        p5 == IF hasExp THEN skip_digits(text, p4) ELSE p3
    IN  IF p2 = p1 THEN Fail
        ELSE IF At(text, p1) = 48 /\ IsDigit(At(text, p2)) THEN Fail
        ELSE IF hasFrac /\ p3 = p2 + 1 THEN Fail
        ELSE IF hasExp /\ p5 = p4 THEN Fail
        ELSE Good([t |-> "num", neg |-> neg, digits |-> SubSeq(text, p1, p2 - 1),
                   int |-> ~hasFrac /\ ~hasExp], p5)

IsLiteral(text, pos, word) ==
    pos + Len(word) - 1 <= Len(text) /\ SubSeq(text, pos, pos + Len(word) - 1) = word

RECURSIVE parse_value(_, _)
RECURSIVE parse_items(_, _, _)
RECURSIVE parse_members(_, _, _)

\* The value at pos, after white space.
parse_value(text, pos0) ==
    LET pos == skip_ws(text, pos0)
        c == At(text, pos)
    IN  IF c = 110
        THEN IF IsLiteral(text, pos, Str(<<"n", "u", "l", "l">>))
             THEN Good([t |-> "null"], pos + 4) ELSE Fail
        ELSE IF c = 116
        THEN IF IsLiteral(text, pos, Str(<<"t", "r", "u", "e">>))
             THEN Good([t |-> "bool"], pos + 4) ELSE Fail
        ELSE IF c = 102
        THEN IF IsLiteral(text, pos, Str(<<"f", "a", "l", "s", "e">>))
             THEN Good([t |-> "bool"], pos + 5) ELSE Fail
        ELSE IF c = 34 THEN parse_str(text, pos + 1, <<>>, FALSE)
        ELSE IF c = 45 \/ IsDigit(c) THEN parse_num(text, pos)
        ELSE IF c = 91
        THEN IF At(text, skip_ws(text, pos + 1)) = 93
             THEN Good([t |-> "arr", items |-> <<>>], skip_ws(text, pos + 1) + 1)
             ELSE parse_items(text, pos + 1, <<>>)
        ELSE IF c = 123
        THEN IF At(text, skip_ws(text, pos + 1)) = 125
             THEN Good([t |-> "obj", members |-> <<>>], skip_ws(text, pos + 1) + 1)
             ELSE parse_members(text, pos + 1, <<>>)
        ELSE Fail

\* The elements of an array from pos on, after those of acc.
parse_items(text, pos, acc) ==
    LET after(v) ==
            LET next == skip_ws(text, v.pos)
            IN  IF ~v.ok THEN Fail
                ELSE IF At(text, next) = 44 THEN parse_items(text, next + 1, Append(acc, v.val))
                ELSE IF At(text, next) = 93
                THEN Good([t |-> "arr", items |-> Append(acc, v.val)], next + 1)
                ELSE Fail
    IN  after(parse_value(text, pos))

\* The members of an object from pos on, after those of acc.
parse_members(text, pos, acc) ==
    LET kpos == skip_ws(text, pos)
        after_value(k, v) ==
            LET next == skip_ws(text, v.pos)
                member == [key |-> k.val, val |-> v.val]
            IN  IF ~v.ok THEN Fail
                ELSE IF At(text, next) = 44
                THEN parse_members(text, next + 1, Append(acc, member))
                ELSE IF At(text, next) = 125
                THEN Good([t |-> "obj", members |-> Append(acc, member)], next + 1)
                ELSE Fail
        after_key(k) ==
            LET colon == skip_ws(text, k.pos)
            IN  IF ~k.ok THEN Fail
                ELSE IF At(text, colon) # 58 THEN Fail
                ELSE after_value(k, parse_value(text, colon + 1))
    IN  IF At(text, kpos) # 34 THEN Fail
        ELSE after_key(parse_str(text, kpos + 1, <<>>, FALSE))

\* The one value of the text, with nothing but white space after it.
parse_json(text) ==
    LET whole(v) == IF v.ok /\ skip_ws(text, v.pos) = Len(text) + 1 THEN Some(v.val) ELSE None
    IN  whole(parse_value(text, 1))

\* A JSON string, kept.
de_str(v) == IF v.t = "str" /\ ~v.lone THEN Some(v.s) ELSE None

\* Option<String>: null or a string.
de_option_str(v) ==
    IF v.t = "null" THEN Some(None)
    ELSE IF de_str(v) = None THEN None ELSE Some(de_str(v))

U64Max == Str(<<"1", "8", "4", "4", "6", "7", "4", "4", "0", "7",
                "3", "7", "0", "9", "5", "5", "1", "6", "1", "5">>)

\* Whether the decimal text a is at most the decimal text b of the same length.
RECURSIVE digits_le(_, _)
digits_le(a, b) ==
    IF a = <<>> THEN TRUE
    ELSE IF a[1] # b[1] THEN a[1] < b[1]
    ELSE digits_le(Tail(a), Tail(b))

\* u64: an integer literal without sign, fraction or exponent, within range.
de_u64(v) ==
    IF v.t = "num" /\ ~v.neg /\ v.int
       /\ (Len(v.digits) < Len(U64Max)
           \/ (Len(v.digits) = Len(U64Max) /\ digits_le(v.digits, U64Max)))
    THEN Some(decimal_value(v.digits)) ELSE None

\* What a reading that did not fail holds, as a reading.
ok_val(r) == IF r.ok THEN r.val ELSE None

\* #[serde(with = "hex::serde")]: a string of hex digits.
de_hex(v) == IF v.t = "str" /\ ~v.lone THEN ok_val(hex_decode(v.s)) ELSE None

\* Url: a string that Url::parse accepts.
de_url(v) == IF v.t = "str" /\ ~v.lone THEN ok_val(Url_parse(v.s)) ELSE None

\* The elements of an array (none for another value).
items_of(v) == IF v.t = "arr" THEN v.items ELSE <<>>

\* Vec<T>: an array whose every element reads as a T; rs is what the
\* elements read as.
de_vec(v, rs) ==
    IF v.t # "arr" \/ \E i \in 1..Len(rs) : rs[i] = None THEN None
    ELSE Some([i \in 1..Len(rs) |-> rs[i][1]])

\* derive(Deserialize) on a struct: the JSON values of its fields, in
\* declaration order. From an object: a key of the struct may come once, the
\* other keys are skipped, and a field that is missing is an error unless it
\* is an Option (the fields numbered in optional), which reads as null. From
\* an array: the fields by position, all of them and no more.
de_struct(v, names, optional) ==
    IF v.t = "arr"
    THEN IF Len(v.items) = Len(names) THEN Some(v.items) ELSE None
    ELSE IF v.t # "obj" THEN None
    ELSE LET at(i) == {j \in 1..Len(v.members) : v.members[j].key.s = names[i]}
         IN  IF \/ \E j \in 1..Len(v.members) : v.members[j].key.lone
                \/ \E i \in 1..Len(names) : Cardinality(at(i)) > 1
                \/ \E i \in 1..Len(names) : at(i) = {} /\ i \notin optional
             THEN None
             ELSE Some([i \in 1..Len(names) |->
                          IF at(i) = {} THEN [t |-> "null"]
                          ELSE v.members[CHOOSE j \in at(i) : TRUE].val])

\* The struct of the fields read, if every one of them was read.
BlindedMessage_of(amount, b) ==
    IF amount = None \/ b = None THEN None
    ELSE Some([amount |-> amount[1], blinded_message |-> b[1]])

de_BlindedMessage(v) ==
    LET fields(f) ==
            IF f = None THEN None
            ELSE BlindedMessage_of(de_u64(f[1][1]), de_hex(f[1][2]))
    IN  fields(de_struct(v, <<K_amount, Str(<<"B", "_">>)>>, {}))

BlindedSignature_of(id, amount, c) ==
    IF id = None \/ amount = None \/ c = None THEN None
    ELSE Some([id |-> id[1], amount |-> amount[1], blinded_key |-> c[1]])

de_BlindedSignature(v) ==
    LET fields(f) ==
            IF f = None THEN None
            ELSE BlindedSignature_of(de_option_str(f[1][1]), de_u64(f[1][2]), de_hex(f[1][3]))
    IN  fields(de_struct(v, <<K_id, K_amount, Str(<<"C", "_">>)>>, {1}))

Proof_of(id, amount, secret, c) ==
    IF id = None \/ amount = None \/ secret = None \/ c = None THEN None
    ELSE Some([id |-> id[1], amount |-> amount[1], secret |-> secret[1],
               unblinded_key |-> c[1]])

de_Proof(v) ==
    LET fields(f) ==
            IF f = None THEN None
            ELSE Proof_of(de_option_str(f[1][1]), de_u64(f[1][2]), de_str(f[1][3]),
                          de_hex(f[1][4]))
    IN  fields(de_struct(v, <<K_id, K_amount, K_secret, Str(<<"C">>)>>, {1}))

\* Proofs(Vec<Proof>): a newtype reads as what it wraps.
de_Proofs(v) == de_vec(v, [i \in 1..Len(items_of(v)) |-> de_Proof(items_of(v)[i])])

MintToken_of(mint, proofs) ==
    IF mint = None \/ proofs = None THEN None
    ELSE Some([mint |-> mint[1], proofs |-> proofs[1]])

de_MintToken(v) ==
    LET fields(f) ==
            IF f = None THEN None ELSE MintToken_of(de_url(f[1][1]), de_Proofs(f[1][2]))
    IN  fields(de_struct(v, <<K_mint, K_proofs>>, {}))

\* Vec<MintToken>
de_MintTokens(v) == de_vec(v, [i \in 1..Len(items_of(v)) |-> de_MintToken(items_of(v)[i])])

Token_of(token, memo) ==
    IF token = None \/ memo = None THEN None
    ELSE Some([token |-> token[1], memo |-> memo[1]])

de_Token(v) ==
    LET fields(f) ==
            IF f = None THEN None
            ELSE Token_of(de_MintTokens(f[1][1]), de_option_str(f[1][2]))
    IN  fields(de_struct(v, <<K_token, K_memo>>, {2}))

\* The JSON value read as the type named.
de_as(type, v) ==
    IF type = "Token" THEN de_Token(v)
    ELSE IF type = "BlindedMessage" THEN de_BlindedMessage(v)
    ELSE IF type = "BlindedSignature" THEN de_BlindedSignature(v)
    ELSE de_Proof(v)

\* serde_json::from_str::<T> for the type named.
from_str(type, text) ==
    LET result(r) == IF r = None THEN Err("serde_json", <<"Error">>) ELSE Ok(r[1])
        read(v) == IF v = None THEN None ELSE de_as(type, v[1])
    IN  result(read(parse_json(text)))

---------------------------------------------------------------------------
(* models.rs: the token codec *)

Prefix == Str(<<"c", "a", "s", "h", "u", "A">>)

\* str::strip_prefix
strip_prefix(text, prefix) ==
    IF Len(text) >= Len(prefix) /\ SubSeq(text, 1, Len(prefix)) = prefix
    THEN Some(SubSeq(text, Len(prefix) + 1, Len(text))) ELSE None

\* Token::serialize
Token_serialize(self) ==
    LET token == ser_Token(self)
    IN  Ok(Prefix \o b64_encode(token))

\* As Token::deserialize, but the bytes go to the JSON reader unchecked, so
\* that bytes that are not UTF-8 come back as its error.
Token_deserialize_unchecked_utf8(text) ==
    LET stripped == strip_prefix(text, Prefix)
        decoded == b64_decode(stripped[1])
        token == IF utf8_valid(decoded.val[1]) THEN from_str("Token", decoded.val[1])
                 ELSE Err("serde_json", <<"Error">>)
    IN  IF stripped = None THEN TokenV3(None)
        ELSE IF ~decoded.ok THEN TokenV3(<<"base64::DecodeError">>)
        ELSE IF ~token.ok THEN map_tokenv3("serde_json::Error")
        ELSE Ok(token.val[1])

\* Token::deserialize
Token_deserialize(text) ==
    LET stripped == strip_prefix(text, Prefix)
        decoded == b64_decode(stripped[1])
        utf8 == from_utf8(decoded.val[1])
        token == from_str("Token", utf8.val[1])
    IN  IF stripped = None THEN TokenV3(None)
        ELSE IF ~decoded.ok THEN TokenV3(<<"base64::DecodeError">>)
        ELSE IF ~utf8.ok THEN map_tokenv3("Utf8Error")
        ELSE IF ~token.ok THEN map_tokenv3("serde_json::Error")
        ELSE Ok(token.val[1])

---------------------------------------------------------------------------
(* Calls of the codec: a value or a text is drawn, and the codec's
   operations are applied to it *)

MaxMints == 2
MaxProofs == 2

T_ab == Str(<<"a", "b">>)
\* a quote, a backslash, a line feed, U+0001 and U+00E9
T_escapes == <<34, 92, 10, 1, 195, 169>>
\* U+1F600
T_astral == <<240, 159, 152, 128>>
T_thanks == Str(<<"T", "h", "a", "n", "k", " ", "y", "o", "u", ".">>)

\* Url values: what Url::parse returns.
UrlTexts ==
    { Str(<<"h", "t", "t", "p", "s", ":", "/", "/", "8", "3", "3", "3", ".",
            "s", "p", "a", "c", "e", ":", "3", "3", "3", "8">>),
      Str(<<"H", "T", "T", "P", ":", "/", "/", "M", "i", "n", "t", ".", "A",
            ":", "8", "0", "/", "A", "p", "i", "_", "1">>) }
Urls == {Url_parse(t).val[1] : t \in UrlTexts}

ProofPool ==
    { [id |-> None, amount |-> 0, secret |-> <<>>, unblinded_key |-> <<>>],
      [id |-> Some(T_astral), amount |-> 2147483647, secret |-> T_escapes,
       unblinded_key |-> <<2, 171, 0, 255>>] }

Memos == {None, Some(T_thanks \o T_escapes)}

\* The sequences of k mint entries that hold at most n proofs between them.
RECURSIVE MintSeqs(_, _)
MintSeqs(k, n) ==
    IF k = 0 THEN {<<>>}
    ELSE UNION { {<<[mint |-> u, proofs |-> ps]>> \o rest :
                     u \in Urls, rest \in MintSeqs(k - 1, n - Len(ps))} :
                 ps \in SeqsUpTo(ProofPool, n) }

\* Token values: at most MaxMints mint entries that hold at most MaxProofs
\* proofs between them.
Tokens ==
    {[token |-> ms, memo |-> m] :
        ms \in UNION {MintSeqs(k, MaxProofs) : k \in 0..MaxMints}, m \in Memos}

WireAmounts == {0, 10, 2147483647}
WireKeys == {<<>>, <<171, 205>>, to_sec1_bytes(G), <<0, 15, 160, 255>>}
WireIds == {None, Some(<<>>), Some(Str(<<"a", "b", "c", "d">>)), Some(T_escapes \o T_astral)}
WireSecrets == {<<>>, T_ab, T_escapes \o T_astral}

WireBlindedMessages == {[amount |-> a, blinded_message |-> k] : a \in WireAmounts, k \in WireKeys}
WireBlindedSignatures ==
    {[id |-> i, amount |-> a, blinded_key |-> k] : i \in WireIds, a \in WireAmounts, k \in WireKeys}
WireProofs ==
    {[id |-> i, amount |-> a, secret |-> s, unblinded_key |-> k] :
        i \in WireIds, a \in {0, 10}, s \in WireSecrets, k \in {<<>>, <<171, 205>>}}

\* JSON documents offered to Token::deserialize.
J_url == ser_str(Str(<<"h", "t", "t", "p", ":", "/", "/", "a", ".", "b">>))
J_proof(amount, secret, c) ==
    ser_map(<< ser_key(K_amount) \o amount, ser_key(K_secret) \o secret,
               ser_key(Str(<<"C">>)) \o c >>)
J_mint(url, proofs) == ser_map(<<ser_key(K_mint) \o url, ser_key(K_proofs) \o proofs>>)
J_token(mints) == ser_map(<<ser_key(K_token) \o ser_seq(mints)>>)
J_one(amount, secret, c) == J_token(<<J_mint(J_url, ser_seq(<<J_proof(amount, secret, c)>>))>>)
J_good == J_one(ser_u64(1), ser_str(T_ab), ser_str(Str(<<"A", "b", "0", "9">>)))

\* Documents that read as a Token: without memo, with the keys in another
\* order, with a key the struct does not have, with white space, as arrays,
\* with escapes, with a lone surrogate in a string that is skipped.
GoodJson ==
    { J_token(<<>>),
      J_good,
      ser_map(<<ser_key(K_memo) \o ser_str(T_ab), ser_key(K_token) \o ser_seq(<<>>)>>),
      ser_map(<<ser_key(T_ab) \o ser_seq(<<ser_u64(1), ser_map(<<ser_key(K_token) \o ser_null>>)>>),
                ser_key(K_token) \o ser_seq(<<>>)>>),
      <<32, 10>> \o J_token(<<>>) \o <<13, 9>>,
      ser_seq(<<ser_seq(<<>>), ser_null>>),
      J_one(ser_u64(1), Str(<<"\"", "\\", "u", "0", "0", "e", "9", "\\", "n", "\"">>), ser_str(<<>>)),
      ser_map(<<ser_key(K_token) \o ser_seq(<<>>),
                ser_key(T_ab) \o Str(<<"\"", "\\", "u", "d", "8", "0", "0", "\"">>)>>) }

\* Documents that do not: not JSON, something after the value, a required
\* field missing, a wrong type, a field twice, an amount that is no u64, a
\* mint that is no URL, a C that is no hex, a lone surrogate in a string
\* that is kept.
BadJson ==
    { <<>>,
      Str(<<"{", "\"", "t", "o", "k", "e", "n", "\"", ":", "[">>),
      J_token(<<>>) \o Str(<<"x">>),
      ser_map(<<ser_key(K_memo) \o ser_null>>),
      ser_map(<<ser_key(K_token) \o ser_u64(1)>>),
      ser_map(<<ser_key(K_token) \o ser_seq(<<>>), ser_key(K_memo) \o ser_u64(1)>>),
      ser_map(<<ser_key(K_token) \o ser_seq(<<>>), ser_key(K_token) \o ser_seq(<<>>)>>),
      ser_seq(<<ser_seq(<<>>)>>),
      J_token(<<ser_map(<<ser_key(K_mint) \o J_url>>)>>),
      J_token(<<J_mint(J_url, ser_seq(<<ser_map(<<ser_key(K_amount) \o ser_u64(1),
                                                   ser_key(Str(<<"C">>)) \o ser_str(<<>>)>>)>>))>>),
      J_one(<<45, 49>>, ser_str(T_ab), ser_str(<<>>)),
      J_one(Str(<<"1", ".", "5">>), ser_str(T_ab), ser_str(<<>>)),
      J_one(ser_str(Str(<<"1">>)), ser_str(T_ab), ser_str(<<>>)),
      J_one(U64Max \o <<48>>, ser_str(T_ab), ser_str(<<>>)),
      J_one(Append(SubSeq(U64Max, 1, Len(U64Max) - 1), 54), ser_str(T_ab), ser_str(<<>>)),
      J_one(ser_u64(1), ser_null, ser_str(<<>>)),
      J_one(ser_u64(1), ser_str(T_ab), ser_str(Str(<<"0", "g">>))),
      J_one(ser_u64(1), ser_str(T_ab), ser_str(Str(<<"a", "b", "c">>))),
      J_one(ser_u64(1), Str(<<"\"", "\\", "u", "d", "8", "0", "0", "\"">>), ser_str(<<>>)),
      J_token(<<J_mint(ser_str(T_ab), ser_seq(<<>>))>>) }

\* Bytes that are not UTF-8.
BadUtf8 == {<<255>>, <<123, 195, 125>>, <<34, 237, 160, 128, 34>>}

\* Texts after the prefix that are not base64url with padding: a character
\* of another alphabet, padding missing, padding inside, bits after the last
\* byte, the JSON itself.
BadBase64 ==
    { Str(<<"!">>),
      Str(<<"a", "+", "/", "a">>),
      SubSeq(b64_encode(J_good), 1, Len(b64_encode(J_good)) - 1),
      Str(<<"e", "3", "0">>),
      Str(<<"e", "3", "=", "0">>),
      Str(<<"e", "3", "1", "=">>),
      J_good }

\* Texts without the prefix: empty, the payload alone, another version
\* letter, another case, the prefix cut short, the prefix not in front.
NoPrefix ==
    { <<>>,
      b64_encode(J_good),
      Str(<<"c", "a", "s", "h", "u", "B">>) \o b64_encode(J_good),
      Str(<<"C", "a", "s", "h", "u", "A">>) \o b64_encode(J_good),
      Str(<<"c", "a", "s", "h", "u">>),
      <<32>> \o Prefix \o b64_encode(J_good),
      Str(<<"c", "a", "s", "h", "u", "B", "!">>),
      b64_encode(<<255>>) }

\* The prefix before the base64url text of each of the payloads.
Cashu(payloads) == {Prefix \o b64_encode(p) : p \in payloads}

TextsGoodJson == Cashu(GoodJson)
TextsBadJson == Cashu(BadJson)
TextsBadUtf8 == Cashu(BadUtf8)
TextsBadBase64 == {Prefix \o t : t \in BadBase64}

TokenTexts ==
    TextsGoodJson \cup TextsBadJson \cup TextsBadUtf8 \cup TextsBadBase64 \cup NoPrefix

WireTypes == {"BlindedMessage", "BlindedSignature", "Proof"}

\* serde_json::to_string of a wire value of the type named
to_string(type, v) ==
    Ok(IF type = "BlindedMessage" THEN ser_BlindedMessage(v)
       ELSE IF type = "BlindedSignature" THEN ser_BlindedSignature(v)
       ELSE ser_Proof(v))

InitCodec ==
    /\ decompact \in BOOLEAN
    /\ bm = None
    /\ \/ \E t \in Tokens : last = [op |-> "input", kind |-> "Token", value |-> t]
       \/ \E x \in TokenTexts : last = [op |-> "input", kind |-> "text", value |-> x]
       \/ \E v \in WireBlindedMessages :
              last = [op |-> "input", kind |-> "BlindedMessage", value |-> v]
       \/ \E v \in WireBlindedSignatures :
              last = [op |-> "input", kind |-> "BlindedSignature", value |-> v]
       \/ \E v \in WireProofs : last = [op |-> "input", kind |-> "Proof", value |-> v]

\* Token::serialize on the token drawn
CallTokenSerialize ==
    /\ last.op = "input" /\ last.kind = "Token"
    /\ last' = [op |-> "Token::serialize", self |-> last.value,
                res |-> Token_serialize(last.value)]
    /\ UNCHANGED <<decompact, bm>>

\* Token::deserialize, on the text drawn or on what Token::serialize returned
CallTokenDeserialize ==
    /\ \/ last.op = "input" /\ last.kind = "text"
       \/ last.op = "Token::serialize" /\ last.res.ok
    /\ LET token == IF last.op = "input" THEN last.value ELSE last.res.val[1]
           from == IF last.op = "input" THEN None ELSE Some(last.self)
       IN  last' = [op |-> "Token::deserialize", token |-> token, from |-> from,
                    res |-> Token_deserialize(token)]
    /\ UNCHANGED <<decompact, bm>>

\* serde_json::to_string on the wire value drawn
CallToString ==
    /\ last.op = "input" /\ last.kind \in WireTypes
    /\ last' = [op |-> "to_string", type |-> last.kind, value |-> last.value,
                res |-> to_string(last.kind, last.value)]
    /\ UNCHANGED <<decompact, bm>>

\* serde_json::from_str on what serde_json::to_string returned
CallFromStr ==
    /\ last.op = "to_string" /\ last.res.ok
    /\ last' = [op |-> "from_str", type |-> last.type, text |-> last.res.val[1],
                from |-> last.value, res |-> from_str(last.type, last.res.val[1])]
    /\ UNCHANGED <<decompact, bm>>

NextCodec ==
    \/ CallTokenSerialize
    \/ CallTokenDeserialize
    \/ CallToString
    \/ CallFromStr

SpecCodec == InitCodec /\ [][NextCodec]_vars

---------------------------------------------------------------------------
(* Properties of the codec *)

IsBytes(s) == DOMAIN s = 1..Len(s) /\ \A i \in 1..Len(s) : s[i] \in 0..255
IsString(s) == IsBytes(s) /\ utf8_valid(s)
IsOptionString(o) == o = None \/ (Len(o) = 1 /\ IsString(o[1]))

IsProof(p) ==
    /\ DOMAIN p = {"id", "amount", "secret", "unblinded_key"}
    /\ IsOptionString(p.id)
    /\ p.amount \in Nat
    /\ IsString(p.secret)
    /\ IsBytes(p.unblinded_key)

IsMintToken(m) ==
    /\ DOMAIN m = {"mint", "proofs"}
    /\ Url_parse(m.mint) = Ok(m.mint)
    /\ DOMAIN m.proofs = 1..Len(m.proofs)
    /\ \A i \in 1..Len(m.proofs) : IsProof(m.proofs[i])

\* A whole Token: every field of every level is there and of its type.
IsToken(t) ==
    /\ DOMAIN t = {"token", "memo"}
    /\ DOMAIN t.token = 1..Len(t.token)
    /\ \A i \in 1..Len(t.token) : IsMintToken(t.token[i])
    /\ IsOptionString(t.memo)

\* C1: for every valid Token t, Token::serialize(t) succeeds, and
\* Token::deserialize of what it returned succeeds with a Token equal to t,
\* its mint entries and the proofs of each in the order they had in t.
C1_TokenRoundTrip ==
    /\ last.op = "Token::serialize" => IsToken(last.self) /\ last.res.ok
    /\ last.op = "Token::deserialize" /\ last.from # None =>
          LET t == last.from[1]
              r == last.res.val[1]
          IN  /\ last.res.ok
              /\ r = t
              /\ Len(r.token) = Len(t.token)
              /\ \A i \in 1..Len(t.token) :
                    /\ r.token[i].mint = t.token[i].mint
                    /\ Len(r.token[i].proofs) = Len(t.token[i].proofs)
                    /\ \A j \in 1..Len(t.token[i].proofs) :
                          r.token[i].proofs[j] = t.token[i].proofs[j]

\* A token of two different mint entries, the first with a proof whose id
\* is absent, and with a memo, has been serialized and read back.
C1_Witness ==
    /\ last.op = "Token::deserialize"
    /\ last.from # None
    /\ Len(last.from[1].token) = 2
    /\ last.from[1].token[1].mint # last.from[1].token[2].mint
    /\ Len(last.from[1].token[1].proofs) = 1
    /\ last.from[1].token[1].proofs[1].id = None
    /\ last.from[1].memo # None
    /\ last.res = Ok(last.from[1])

HasPrefix(text) == Len(text) >= 6 /\ \A i \in 1..6 : text[i] = Prefix[i]
AfterPrefix(text) == SubSeq(text, 7, Len(text))

\* What the four checks, taken in their order, make of a text.
FirstFailure(text) ==
    IF ~HasPrefix(text) THEN TokenV3(None)
    ELSE LET decoded == b64_decode(AfterPrefix(text))
         IN  IF ~decoded.ok THEN TokenV3(Some("base64::DecodeError"))
             ELSE IF ~utf8_valid(decoded.val[1]) THEN TokenV3(Some("Utf8Error"))
             ELSE LET json == from_str("Token", decoded.val[1])
                  IN  IF ~json.ok THEN TokenV3(Some("serde_json::Error"))
                      ELSE Ok(json.val[1])

\* C5: Token::deserialize checks the prefix, the base64url text, the UTF-8
\* bytes and the JSON document in this order and returns the error of the
\* first check that fails: TokenV3 with no cause without the prefix,
\* whatever follows, and TokenV3 with the stage's error as its cause for
\* base64, UTF-8 and JSON (a missing required field and a wrong type
\* included); a result is a whole Token or an error, and Ok is returned only
\* when the four checks pass.
C5_DeserializeFirstFailure ==
    last.op = "Token::deserialize" =>
        /\ last.res = FirstFailure(last.token)
        /\ last.token \in NoPrefix => last.res = TokenV3(None)
        /\ last.token \in TextsBadBase64 => last.res = TokenV3(Some("base64::DecodeError"))
        /\ last.token \in TextsBadUtf8 => last.res = TokenV3(Some("Utf8Error"))
        /\ last.token \in TextsBadJson => last.res = TokenV3(Some("serde_json::Error"))
        /\ last.token \in TextsGoodJson => last.res.ok
        /\ IF last.res.ok
           THEN IsToken(last.res.val[1])
           ELSE last.res.val = None /\ last.res.err.kind = "TokenV3"

\* A text with the prefix, well-formed base64url and UTF-8, whose document
\* has its mint entry without the required field proofs, has been refused.
C5_Witness ==
    /\ last.op = "Token::deserialize"
    /\ last.from = None
    /\ last.token = Prefix \o b64_encode(J_token(<<ser_map(<<ser_key(K_mint) \o J_url>>)>>))
    /\ last.res = TokenV3(Some("serde_json::Error"))

\* The keys of a wire struct, in declaration order.
DeclaredKeys(type) ==
    IF type = "BlindedMessage" THEN <<K_amount, Str(<<"B", "_">>)>>
    ELSE IF type = "BlindedSignature" THEN <<K_id, K_amount, Str(<<"C", "_">>)>>
    ELSE <<K_id, K_amount, K_secret, Str(<<"C">>)>>

\* The point bytes of a wire value.
PointBytes(type, v) ==
    IF type = "BlindedMessage" THEN v.blinded_message
    ELSE IF type = "BlindedSignature" THEN v.blinded_key
    ELSE v.unblinded_key

LowerHexDigits == {c \in HexDigits : c < 65 \/ c > 70}

\* The text is two lowercase hex digits for each of the bytes.
IsLowerHexOf(text, bytes) ==
    /\ Len(text) = 2 * Len(bytes)
    /\ \A i \in 1..Len(text) : text[i] \in LowerHexDigits
    /\ \A i \in 1..Len(bytes) : 16 * hex_val(text[2 * i - 1]) + hex_val(text[2 * i]) = bytes[i]

\* C8: JSON-encoding a wire BlindedMessage, BlindedSignature or Proof gives
\* one object whose keys are exactly (amount, B_), (id, amount, C_) and
\* (id, amount, secret, C), in this order, with the point bytes as
\* lowercase hex, and decoding that text returns a value equal to the one
\* encoded.
C8_WireRoundTrip ==
    /\ last.op = "to_string" =>
          LET o == parse_json(last.res.val[1])
              n == Len(DeclaredKeys(last.type))
          IN  /\ last.res.ok
              /\ o # None
              /\ o[1].t = "obj"
              /\ [i \in 1..Len(o[1].members) |-> o[1].members[i].key.s] = DeclaredKeys(last.type)
              /\ o[1].members[n].val.t = "str"
              /\ IsLowerHexOf(o[1].members[n].val.s, PointBytes(last.type, last.value))
    /\ last.op = "from_str" => last.res = Ok(last.from)

\* A Proof with an id, a secret that needs escapes and two point bytes has
\* been encoded and read back.
C8_Witness ==
    /\ last.op = "from_str"
    /\ last.type = "Proof"
    /\ last.from.id # None
    /\ last.from.secret = T_escapes \o T_astral
    /\ last.from.unblinded_key = <<171, 205>>
    /\ last.res = Ok(last.from)

===========================================================================
